---- MODULE Spec2Model ----
(***************************************************************************)
(* A model of the vpnboard panel client (api/vpnboard): the conditional    *)
(* fetches GetNodeInfo and GetUserList with their ETag bookkeeping, the    *)
(* response parser, the node and user normalizers with their 64-bit        *)
(* arithmetic, and the telemetry stubs.                                    *)
(*                                                                         *)
(* A fetch blocks in the transport's Post, so it is modelled as the steps  *)
(* call -> Post -> (panel answers) -> the rest of the handler; a caller    *)
(* (a host loop) runs one operation at a time.  Spec has one caller,       *)
(* SpecConc has two callers on the same client.                            *)
(*                                                                         *)
(* 64-bit integers are kept at their width: a word is a little-endian      *)
(* tuple of four 16-bit limbs, and the arithmetic below wraps modulo 2^64. *)
(* The float64 Config speed limit (Mbps) is represented by the integer     *)
(* number of bits per second it denotes (SpeedLimit * 1000000).            *)
(***************************************************************************)
EXTENDS Integers, Sequences, FiniteSets, TLC

\* ------------------------------------------------------------------ bounds
MaxUsers == 1
MaxRequests == 2

\* -------------------------------------------------------------- arithmetic
Base == 256 * 256
LimbsU64 == 4

RECURSIVE MulLimbs(_, _, _, _, _)
\* x * m truncated to n limbs, from limb i on with the carry so far
MulLimbs(x, m, i, carry, n) ==
    IF i > n THEN <<>>
    ELSE LET t == x[i] * m + carry
         IN  <<t % Base>> \o MulLimbs(x, m, i + 1, t \div Base, n)

MulSmall(x, m) == MulLimbs(x, m, 1, 0, Len(x))

\* x * 1000000 modulo 2^(16 * Len(x)), in two steps that fit the checker's integers
Mul1000000(x) == MulSmall(MulSmall(x, 1000), 1000)

\* unsigned x / 8: a right shift by three bits
Div8(x) ==
    [i \in 1..Len(x) |->
        (x[i] \div 8) + (IF i < Len(x) THEN (x[i + 1] % 8) * (Base \div 8) ELSE 0)]

RECURSIVE AddOne(_, _)
AddOne(x, i) ==
    IF i > Len(x) THEN x
    ELSE IF x[i] = Base - 1 THEN AddOne([x EXCEPT ![i] = 0], i + 1)
    ELSE [x EXCEPT ![i] = x[i] + 1]

\* two's complement negation
Neg(x) == AddOne([i \in 1..Len(x) |-> Base - 1 - x[i]], 1)

IsNegative(x) == x[Len(x)] >= Base \div 2

\* Go's signed /: truncation toward zero
SignedDiv8(x) == IF IsNegative(x) THEN Neg(Div8(Neg(x))) ELSE Div8(x)

RECURSIVE NatLimbs(_, _)
NatLimbs(v, n) == IF n = 0 THEN <<>> ELSE <<v % Base>> \o NatLimbs(v \div Base, n - 1)

\* a small natural number as a uint64
U64(v) == NatLimbs(v, LimbsU64)

\* ------------------------------------------------------------ value domains
Callers == {1, 2}
Resources == {"node", "users"}
\* the panel's versions of a resource, named by their ETag
Versions == {"v1", "v2"}
NoToken == ""
Tokens == Versions \cup {NoToken}

SupportedNodeTypes == {"V2ray", "Trojan", "Shadowsocks", "Vmess", "Vless"}
NodeTypes == SupportedNodeTypes \cup {"Foo"}
\* Config.SpeedLimit in bits per second: unset, 12 bps (1.5 bytes/sec)
SpeedLimits == {0, 12}
DeviceLimits == {0, 2}
RuleLists == {<<[ID |-> -1, Pattern |-> "abc"]>>}

NodeInfoPath == "/api/public/xrayr/node/info"
UserListPath == "/api/public/xrayr/user/list"
APIHost == "http://127.0.0.1:3000"
assembleURL(path) == <<APIHost, path>>

\* node_speed_limit (int64): 0, 3, 9223372036854 (largest whose product fits),
\* 9223372036855 (the product exceeds 2^63 - 1)
PanelNodeSpeeds ==
    { U64(0), U64(3), <<23286, 31696, 2147, 0>>, <<23287, 31696, 2147, 0>> }
\* speed_limit (uint64): 3, 18446744073710 (the smallest whose product
\* exceeds 2^64 - 1)
PanelUserSpeeds ==
    { U64(3), <<46574, 63392, 4294, 0>> }
PanelDeviceLimits == {0, 3}

ZeroNodeInfoResponse == [NodeSpeedLimit |-> U64(0), NodeType |-> ""]
NodeInfoResponses ==
    [NodeSpeedLimit : PanelNodeSpeeds, NodeType : {"V2ray"}]
UserListResponseItems ==
    [UID : {7}, UUID : {"uuid"}, SpeedLimit : PanelUserSpeeds, DeviceLimit : PanelDeviceLimits]
UserLists == UNION { [1..n -> UserListResponseItems] : n \in 0..MaxUsers }

\* the envelope's raw data: decodable into the resource's payload type or not
NoData == [ok |-> FALSE, node |-> ZeroNodeInfoResponse, list |-> <<>>]
NodeData == { [ok |-> TRUE, node |-> n, list |-> <<>>] : n \in NodeInfoResponses }
UserData == { [ok |-> TRUE, node |-> ZeroNodeInfoResponse, list |-> l] : l \in UserLists }
DataOf(resource) == IF resource = "node" THEN NodeData ELSE UserData

\* Response{Code, Msg, Data}; the zero value is what Result() holds when the
\* transport did not decode a body into it
ZeroResponse == [Code |-> 0, Msg |-> "", Data |-> NoData]

\* ------------------------------------------------------------------- errors
NoURL == <<"", "">>
NoError == [kind |-> "nil", url |-> NoURL, text |-> ""]
\* the transport's own error, returned as it is
RawError(e) == [kind |-> "transport", url |-> NoURL, text |-> e]
\* "request %s failed: %s"
TransportFailure(url, e) == [kind |-> "TransportFailure", url |-> url, text |-> e]
\* "request %s failed: %s, %v"
RemoteFailure(url, body) == [kind |-> "RemoteFailure", url |-> url, text |-> body]
\* "ret %s invalid", with the envelope serialized
RemoteLogicalFailure(response) ==
    [kind |-> "RemoteLogicalFailure", url |-> NoURL,
     text |-> IF response.Code = 1 THEN "{code:1,msg:denied}" ELSE "{code:0}"]
\* "unmarshal %s failed: %s"
DecodeFailure(type) == [kind |-> "DecodeFailure", url |-> NoURL, text |-> type]
NodeNotModified == [kind |-> "NodeNotModified", url |-> NoURL, text |-> ""]
UserNotModified == [kind |-> "UserNotModified", url |-> NoURL, text |-> ""]
UnsupportedNodeType(t) == [kind |-> "UnsupportedNodeType", url |-> NoURL, text |-> t]

\* -------------------------------------------------------------------- state
VARIABLES
    NodeType, SpeedLimit, DeviceLimit,  \* Config, copied into the client by New
    LocalRuleList,                      \* read once by New
    eTags,                              \* the client's token of each resource
    access,                             \* the client's mutex: 0 free, else its holder
    panel,                              \* the panel's current version of each resource
    requests,                           \* Post calls handed to the transport so far
    pc, cur, res, ret,                  \* per caller: position, call, response, result
    delivered,                          \* versions whose entity a fetch has returned
    tokened                             \* a fetch has returned an entity that came with an ETag

vars == <<NodeType, SpeedLimit, DeviceLimit, LocalRuleList, eTags, access, panel,
          requests, pc, cur, res, ret, delivered, tokened>>
config == <<NodeType, SpeedLimit, DeviceLimit, LocalRuleList>>

NoCall == [op |-> "none", resource |-> "none", sent |-> NoToken,
           pre |-> [r \in Resources |-> NoToken], reqs |-> 0, parsed |-> FALSE]
NoResponse == [err |-> "", status |-> 0, etag |-> NoToken, body |-> "",
               result |-> ZeroResponse, ver |-> NoToken]
NilNodeInfo == [isNil |-> TRUE, NodeType |-> "", SpeedLimit |-> U64(0)]
NoReturn == [kind |-> "none", err |-> NoError, nodeInfo |-> NilNodeInfo, userList |-> <<>>]
ReturnError(e) == [kind |-> "error", err |-> e, nodeInfo |-> NilNodeInfo, userList |-> <<>>]
ReturnNil == [kind |-> "nil", err |-> NoError, nodeInfo |-> NilNodeInfo, userList |-> <<>>]
ReturnNodeInfo(n) == [kind |-> "nodeInfo", err |-> NoError, nodeInfo |-> n, userList |-> <<>>]
ReturnUserList(l) == [kind |-> "userList", err |-> NoError, nodeInfo |-> NilNodeInfo, userList |-> l]

\* New: the client after construction
New ==
    /\ NodeType \in NodeTypes
    /\ SpeedLimit \in SpeedLimits
    /\ DeviceLimit \in DeviceLimits
    /\ LocalRuleList \in RuleLists
    /\ eTags = [r \in Resources |-> NoToken]
    /\ access = 0

Init ==
    /\ New
    /\ panel = [r \in Resources |-> "v1"]
    /\ requests = 0
    /\ pc = [p \in Callers |-> "idle"]
    /\ cur = [p \in Callers |-> NoCall]
    /\ res = [p \in Callers |-> NoResponse]
    /\ ret = [p \in Callers |-> NoReturn]
    /\ delivered = [r \in Resources |-> {}]
    /\ tokened = [r \in Resources |-> FALSE]

StartCall(op, resource) ==
    [op |-> op, resource |-> resource, sent |-> NoToken, pre |-> eTags,
     reqs |-> requests, parsed |-> FALSE]

\* ------------------------------------------------------- the code's helpers
\* uint64(c.SpeedLimit * 1000000 / 8): the float quotient truncated
OverrideBytesPerSec(bits) == U64(bits \div 8)

\* the ETag bookkeeping of both fetches: c.eTags[resource] = ETag when it is
\* non-empty and differs from the stored one
StoreETag(tags, resource, etag) ==
    IF etag # NoToken /\ etag # tags[resource]
    THEN [tags EXCEPT ![resource] = etag]
    ELSE tags

\* parseResponse(res, path, err): the envelope, or the first failure that applies
parseResponse(response, path, err) ==
    IF err # "" THEN
        [response |-> ZeroResponse, err |-> TransportFailure(assembleURL(path), err)]
    ELSE IF response.status > 400 THEN
        [response |-> ZeroResponse, err |-> RemoteFailure(assembleURL(path), response.body)]
    ELSE IF response.result.Code # 0 THEN
        [response |-> ZeroResponse, err |-> RemoteLogicalFailure(response.result)]
    ELSE [response |-> response.result, err |-> NoError]

\* parseNodeInfo: the canonical NodeInfo of a node payload
parseNodeInfo(nodeInfoResponse) ==
    LET speedLimit ==
            IF SpeedLimit > 0
            THEN OverrideBytesPerSec(SpeedLimit)
            ELSE SignedDiv8(Mul1000000(nodeInfoResponse.NodeSpeedLimit))
    IN  [isNil |-> FALSE, NodeType |-> nodeInfoResponse.NodeType, SpeedLimit |-> speedLimit]

\* (mutant) the panel's limits win whenever the panel sets them
UserInfoOfPanelFirst(user) ==
    [UID |-> user.UID,
     UUID |-> user.UUID,
     SpeedLimit |-> IF user.SpeedLimit # U64(0)
                    THEN Div8(Mul1000000(user.SpeedLimit))
                    ELSE OverrideBytesPerSec(SpeedLimit),
     DeviceLimit |-> IF user.DeviceLimit > 0 THEN user.DeviceLimit ELSE DeviceLimit,
     Passwd |-> IF NodeType = "Shadowsocks" THEN user.UUID ELSE ""]

\* the loop body of GetUserList: the canonical UserInfo of one panel record
UserInfoOf(user) ==
    [UID |-> user.UID,
     UUID |-> user.UUID,
     SpeedLimit |-> IF SpeedLimit > 0
                    THEN OverrideBytesPerSec(SpeedLimit)
                    ELSE Div8(Mul1000000(user.SpeedLimit)),
     DeviceLimit |-> IF DeviceLimit > 0 THEN DeviceLimit ELSE user.DeviceLimit,
     Passwd |-> IF NodeType = "Shadowsocks" THEN user.UUID ELSE ""]

\* (mutant) the switch misses one of the five families
IsSupportedNodeTypeNoVless(t) == t \in {"V2ray", "Trojan", "Shadowsocks", "Vmess"}

\* the node-type switch at the head of GetUserList
IsSupportedNodeType(t) == t \in {"V2ray", "Trojan", "Shadowsocks", "Vmess", "Vless"}

\* (mutant) no 304 branch: a not-modified response goes on to the parser
NodeInfoAfterPostNo304(response, tags) ==
    IF response.err # "" THEN
        [ret |-> ReturnError(RawError(response.err)), eTags |-> tags, parsed |-> FALSE]
    ELSE
        LET stored == StoreETag(tags, "node", response.etag)
            parsedRes == parseResponse(response, NodeInfoPath, "")
        IN  IF parsedRes.err # NoError THEN
                [ret |-> ReturnError(parsedRes.err), eTags |-> stored, parsed |-> TRUE]
            ELSE IF ~parsedRes.response.Data.ok THEN
                [ret |-> ReturnError(DecodeFailure("*vpnboard.NodeInfoResponse")),
                 eTags |-> stored, parsed |-> TRUE]
            ELSE
                [ret |-> ReturnNodeInfo(parseNodeInfo(parsedRes.response.Data.node)),
                 eTags |-> stored, parsed |-> TRUE]

\* GetNodeInfo from the return of Post on: the result, the tokens it leaves,
\* and whether parseResponse ran
NodeInfoAfterPost(response, tags) ==
    IF response.err # "" THEN
        [ret |-> ReturnError(RawError(response.err)), eTags |-> tags, parsed |-> FALSE]
    ELSE IF response.status = 304 THEN
        [ret |-> ReturnError(NodeNotModified), eTags |-> tags, parsed |-> FALSE]
    ELSE
        LET stored == StoreETag(tags, "node", response.etag)
            parsedRes == parseResponse(response, NodeInfoPath, "")
        IN  IF parsedRes.err # NoError THEN
                [ret |-> ReturnError(parsedRes.err), eTags |-> stored, parsed |-> TRUE]
            ELSE IF ~parsedRes.response.Data.ok THEN
                [ret |-> ReturnError(DecodeFailure("*vpnboard.NodeInfoResponse")),
                 eTags |-> stored, parsed |-> TRUE]
            ELSE
                [ret |-> ReturnNodeInfo(parseNodeInfo(parsedRes.response.Data.node)),
                 eTags |-> stored, parsed |-> TRUE]

\* GetUserList from the return of Post on
UserListAfterPost(response, tags) ==
    IF response.err # "" THEN
        [ret |-> ReturnError(RawError(response.err)), eTags |-> tags, parsed |-> FALSE]
    ELSE IF response.status = 304 THEN
        [ret |-> ReturnError(UserNotModified), eTags |-> tags, parsed |-> FALSE]
    ELSE
        LET stored == StoreETag(tags, "users", response.etag)
            parsedRes == parseResponse(response, UserListPath, "")
        IN  IF parsedRes.err # NoError THEN
                [ret |-> ReturnError(parsedRes.err), eTags |-> stored, parsed |-> TRUE]
            ELSE IF ~parsedRes.response.Data.ok THEN
                [ret |-> ReturnError(DecodeFailure("*vpnboard.UserListResponse")),
                 eTags |-> stored, parsed |-> TRUE]
            ELSE
                LET users == parsedRes.response.Data.list
                IN  [ret |-> ReturnUserList([i \in 1..Len(users) |-> UserInfoOf(users[i])]),
                     eTags |-> stored, parsed |-> TRUE]

\* ---------------------------------------------------------------- the panel
\* What Post can come back with for a request of `resource` that carried `sent`:
\* a transport error; 304, which the panel answers only to the ETag of its
\* current version; or a status with a body, carrying the current version's
\* ETag or none.  The transport decodes the body into the Response only when
\* the status is a success.
Responses(resource, sent) ==
    { [NoResponse EXCEPT !.err = "timeout"] }
    \cup { [NoResponse EXCEPT !.status = 304, !.etag = t, !.ver = panel[resource]]
            : t \in IF sent = panel[resource] THEN {NoToken, panel[resource]} ELSE {} }
    \cup { [NoResponse EXCEPT !.status = st, !.etag = t, !.body = "error page",
                              !.ver = panel[resource]]
            : st \in {400, 500}, t \in {NoToken, panel[resource]} }
    \cup { [NoResponse EXCEPT !.status = 200, !.etag = t, !.body = "json",
                              !.result = [Code |-> 1, Msg |-> "denied", Data |-> NoData],
                              !.ver = panel[resource]]
            : t \in {NoToken, panel[resource]} }
    \cup { [NoResponse EXCEPT !.status = 200, !.etag = t, !.body = "json",
                              !.result = [Code |-> 0, Msg |-> "", Data |-> d],
                              !.ver = panel[resource]]
            : t \in {NoToken, panel[resource]}, d \in DataOf(resource) \cup {NoData} }

\* the panel publishes another version of a resource
PanelUpdate ==
    /\ \E r \in Resources, v \in Versions :
          /\ v # panel[r]
          /\ panel' = [panel EXCEPT ![r] = v]
    /\ UNCHANGED <<config, eTags, access, requests, pc, cur, res, ret, delivered, tokened>>

\* the transport returns from Post
PanelRespond(p) ==
    /\ pc[p] = "wait"
    /\ \E response \in Responses(cur[p].resource, cur[p].sent) :
          res' = [res EXCEPT ![p] = response]
    /\ pc' = [pc EXCEPT ![p] = "recv"]
    /\ UNCHANGED <<config, eTags, access, panel, requests, cur, ret, delivered, tokened>>

\* --------------------------------------------------------------- operations
\* GetNodeInfo is entered
GetNodeInfo(p) ==
    /\ pc[p] = "idle"
    /\ requests < MaxRequests
    /\ cur' = [cur EXCEPT ![p] = StartCall("GetNodeInfo", "node")]
    /\ pc' = [pc EXCEPT ![p] = "post"]
    /\ UNCHANGED <<config, eTags, access, panel, requests, res, ret, delivered, tokened>>

\* GetUserList is entered: the node-type switch
GetUserList(p) ==
    /\ pc[p] = "idle"
    /\ requests < MaxRequests
    /\ cur' = [cur EXCEPT ![p] = StartCall("GetUserList", "users")]
    /\ IF IsSupportedNodeType(NodeType)
       THEN /\ pc' = [pc EXCEPT ![p] = "post"]
            /\ ret' = ret
       ELSE /\ pc' = [pc EXCEPT ![p] = "done"]
            /\ ret' = [ret EXCEPT ![p] = ReturnError(UnsupportedNodeType(NodeType))]
    /\ UNCHANGED <<config, eTags, access, panel, requests, res, delivered, tokened>>

\* the request is built, with If-None-Match read from c.eTags, and posted
Post(p) ==
    /\ pc[p] = "post"
    /\ requests < MaxRequests
    /\ cur' = [cur EXCEPT ![p].sent = eTags[cur[p].resource]]
    /\ requests' = requests + 1
    /\ pc' = [pc EXCEPT ![p] = "wait"]
    /\ UNCHANGED <<config, eTags, access, panel, res, ret, delivered, tokened>>

Finish(p, out) ==
    /\ eTags' = out.eTags
    /\ ret' = [ret EXCEPT ![p] = out.ret]
    /\ cur' = [cur EXCEPT ![p].parsed = out.parsed]
    /\ delivered' =
          IF out.ret.kind \in {"nodeInfo", "userList"}
          THEN [delivered EXCEPT ![cur[p].resource] = @ \cup {res[p].ver}]
          ELSE delivered
    /\ tokened' =
          IF out.ret.kind \in {"nodeInfo", "userList"} /\ res[p].etag # NoToken
          THEN [tokened EXCEPT ![cur[p].resource] = TRUE]
          ELSE tokened
    /\ pc' = [pc EXCEPT ![p] = "done"]
    /\ UNCHANGED <<config, access, panel, requests, res>>

\* the rest of GetNodeInfo, once Post has returned
GetNodeInfoReturn(p) ==
    /\ pc[p] = "recv"
    /\ cur[p].op = "GetNodeInfo"
    /\ Finish(p, NodeInfoAfterPost(res[p], eTags))

\* the rest of GetUserList, once Post has returned
GetUserListReturn(p) ==
    /\ pc[p] = "recv"
    /\ cur[p].op = "GetUserList"
    /\ Finish(p, UserListAfterPost(res[p], eTags))

\* the body of a telemetry stub: return nil
ReturnsNil(p, op) ==
    /\ cur' = [cur EXCEPT ![p] = StartCall(op, "none")]
    /\ ret' = [ret EXCEPT ![p] = ReturnNil]
    /\ pc' = [pc EXCEPT ![p] = "done"]
    /\ UNCHANGED <<config, eTags, access, panel, requests, res, delivered, tokened>>

NodeStatuses == {[CPU |-> 1, Mem |-> 1, Disk |-> 1, Uptime |-> 256]}
OnlineUserLists == {<<>>, <<[UID |-> 7, IP |-> "1.1.1.0"]>>}
UserTrafficLists == {<<>>, <<[UID |-> 7, Upload |-> 114514, Download |-> 114514]>>}
DetectResultLists == {<<>>, <<[UID |-> 1, RuleID |-> 2], [UID |-> 1, RuleID |-> 3]>>}

ReportNodeStatus(p) ==
    /\ pc[p] = "idle"
    /\ \E nodeStatus \in NodeStatuses : ReturnsNil(p, "ReportNodeStatus")

ReportNodeOnlineUsers(p) ==
    /\ pc[p] = "idle"
    /\ \E onlineUser \in OnlineUserLists : ReturnsNil(p, "ReportNodeOnlineUsers")

ReportUserTraffic(p) ==
    /\ pc[p] = "idle"
    /\ \E userTraffic \in UserTrafficLists : ReturnsNil(p, "ReportUserTraffic")

\* (mutant) the stub posts its argument to the panel
ReportIllegalPosts(p) ==
    /\ pc[p] = "idle"
    /\ requests < MaxRequests
    /\ \E detectResultList \in DetectResultLists :
          /\ cur' = [cur EXCEPT ![p] = StartCall("ReportIllegal", "none")]
          /\ ret' = [ret EXCEPT ![p] = ReturnNil]
          /\ requests' = requests + 1
          /\ pc' = [pc EXCEPT ![p] = "done"]
          /\ UNCHANGED <<config, eTags, access, panel, res, delivered, tokened>>

ReportIllegal(p) ==
    /\ pc[p] = "idle"
    /\ \E detectResultList \in DetectResultLists : ReturnsNil(p, "ReportIllegal")

\* the host takes the result; the caller is free for its next call
Return(p) ==
    /\ pc[p] = "done"
    /\ pc' = [pc EXCEPT ![p] = "idle"]
    /\ cur' = [cur EXCEPT ![p] = NoCall]
    /\ res' = [res EXCEPT ![p] = NoResponse]
    /\ ret' = [ret EXCEPT ![p] = NoReturn]
    /\ UNCHANGED <<config, eTags, access, panel, requests, delivered, tokened>>

\* Two goroutines about to touch the eTags map at once, one of them writing:
\* a data race, which the Go runtime may end with a fatal error.
AboutToRead(p) ==
    \/ pc[p] = "post"
    \/ pc[p] = "recv" /\ res[p].err = "" /\ res[p].status # 304
AboutToWrite(p) ==
    /\ pc[p] = "recv" /\ res[p].err = "" /\ res[p].status # 304
    /\ StoreETag(eTags, cur[p].resource, res[p].etag) # eTags

MapRace(p, q) ==
    /\ p # q
    /\ AboutToWrite(p)
    /\ AboutToRead(q)
    /\ pc' = [c \in Callers |-> "fatal"]
    /\ UNCHANGED <<config, eTags, access, panel, requests, cur, res, ret, delivered, tokened>>

\* ----------------------------------------------------------- specifications
Step(p) ==
    \/ GetNodeInfo(p)
    \/ GetUserList(p)
    \/ Post(p)
    \/ PanelRespond(p)
    \/ GetNodeInfoReturn(p)
    \/ GetUserListReturn(p)
    \/ ReportNodeStatus(p)
    \/ ReportNodeOnlineUsers(p)
    \/ ReportUserTraffic(p)
    \/ ReportIllegal(p)
    \/ Return(p)

\* one host loop calling the client
Next == Step(1) \/ PanelUpdate

Spec == Init /\ [][Next]_vars

\* two host loops calling the same client, as the test's CreateClient builds it
InitConc ==
    /\ Init
    /\ NodeType = "V2ray"
    /\ SpeedLimit = 0
    /\ DeviceLimit = 0

NextConc ==
    \/ \E p \in Callers : Step(p)
    \/ \E p, q \in Callers : MapRace(p, q)
    \/ PanelUpdate

SpecConc == InitConc /\ [][NextConc]_vars

\* =================================================================== claims
Fetches == {"GetNodeInfo", "GetUserList"}
Reports == {"ReportNodeStatus", "ReportNodeOnlineUsers", "ReportUserTraffic", "ReportIllegal"}
FailureKinds ==
    {"transport", "TransportFailure", "RemoteFailure", "RemoteLogicalFailure", "DecodeFailure"}
NotModifiedKinds == {"NodeNotModified", "UserNotModified"}
IsEntity(r) == r.kind \in {"nodeInfo", "userList"}

\* a fetch of caller p has returned
Fetched(p) == pc[p] = "done" /\ cur[p].op \in Fetches /\ cur[p].reqs # requests
\* ... on a response that was not 304 and not a transport error
Answered(p) == Fetched(p) /\ res[p].err = "" /\ res[p].status # 304

\* C1: a fetch that returns a failure (transport error, HTTP status > 400,
\* envelope code # 0, payload decode failure) leaves the stored token of its
\* resource as it was before the call, even when the response carried an ETag.
C1_FailedFetchKeepsToken ==
    \A p \in Callers :
        (Fetched(p) /\ ret[p].kind = "error" /\ ret[p].err.kind \in FailureKinds)
            => eTags[cur[p].resource] = cur[p].pre[cur[p].resource]

\* C3: after a successful fetch whose response carried a non-empty ETag t the
\* stored token is t and the next request of the resource sends t; a response
\* whose ETag is empty or equal to the stored token leaves the token as it was;
\* and until the first successful response with an ETag, the token sent is empty.
C3_StoredAfterSuccess ==
    \A p \in Callers :
        (Answered(p) /\ IsEntity(ret[p]) /\ res[p].etag # NoToken)
            => eTags[cur[p].resource] = res[p].etag
C3_SendsStored ==
    \A p \in Callers : pc[p] = "wait" => cur[p].sent = eTags[cur[p].resource]
C3_NoNewTokenKeeps ==
    \A p \in Callers :
        (Answered(p) /\ res[p].etag \in {NoToken, cur[p].pre[cur[p].resource]})
            => eTags[cur[p].resource] = cur[p].pre[cur[p].resource]
C3_EmptyBeforeFirst ==
    \A p \in Callers :
        (pc[p] \in {"wait", "recv"} /\ ~tokened[cur[p].resource]) => cur[p].sent = NoToken
C3_TokenFollowsSuccessfulETag ==
    /\ C3_StoredAfterSuccess
    /\ C3_SendsStored
    /\ C3_NoNewTokenKeeps
    /\ C3_EmptyBeforeFirst

\* C4: a 304 response makes the fetch return the NotModified condition of its
\* own resource, without running the parser, with no entity, and with the
\* stored tokens of both resources as they were.
C4_NotModifiedShortCircuits ==
    \A p \in Callers :
        (Fetched(p) /\ res[p].err = "" /\ res[p].status = 304)
            => /\ ret[p] = ReturnError(IF cur[p].op = "GetNodeInfo"
                                       THEN NodeNotModified ELSE UserNotModified)
               /\ ~cur[p].parsed
               /\ ret[p].nodeInfo.isNil /\ ret[p].userList = <<>>
               /\ eTags = cur[p].pre
C4_Witness ==
    \E p \in Callers :
        /\ Fetched(p) /\ res[p].err = "" /\ res[p].status = 304
        /\ cur[p].op = "GetUserList"
        /\ res[p].etag # NoToken

\* C5: with a node type outside V2ray, Trojan, Shadowsocks, Vmess, Vless,
\* GetUserList fails with UnsupportedNodeType, having sent no request and
\* changed no token; with each of the five it sends exactly one request.
C5_NodeTypePrecondition ==
    \A p \in Callers :
        cur[p].op = "GetUserList" =>
            IF NodeType \in SupportedNodeTypes
            THEN /\ pc[p] = "post" => requests = cur[p].reqs
                 /\ pc[p] \in {"wait", "recv", "done"} => requests = cur[p].reqs + 1
            ELSE /\ pc[p] = "done"
                 /\ ret[p] = ReturnError(UnsupportedNodeType(NodeType))
                 /\ requests = cur[p].reqs
                 /\ eTags = cur[p].pre
C5_Witness ==
    \E p \in Callers :
        /\ pc[p] = "done" /\ cur[p].op = "GetUserList"
        /\ NodeType = "Foo"
        /\ ret[p].err.kind = "UnsupportedNodeType"

\* C6: the outcome of a fetch that was not answered 304 is decided by the first
\* rule that applies: a transport error gives TransportFailure with the URL and
\* the error text; else a status above 400 gives RemoteFailure with the URL and
\* the body; else an envelope code # 0 gives RemoteLogicalFailure with the
\* serialized envelope; else the data goes on to decoding.
C6_FirstRuleDecides ==
    \A p \in Callers :
        (Fetched(p) /\ ~(res[p].err = "" /\ res[p].status = 304)) =>
            LET url == <<APIHost, IF cur[p].op = "GetNodeInfo"
                                  THEN NodeInfoPath ELSE UserListPath>>
            IN  IF res[p].err # "" THEN
                    ret[p] = ReturnError(TransportFailure(url, res[p].err))
                ELSE IF res[p].status > 400 THEN
                    ret[p] = ReturnError(RemoteFailure(url, res[p].body))
                ELSE IF res[p].result.Code # 0 THEN
                    ret[p] = ReturnError(RemoteLogicalFailure(res[p].result))
                ELSE IsEntity(ret[p]) \/ ret[p].err.kind = "DecodeFailure"

\* C7: a Config speed limit > 0 decides the speed limit of the NodeInfo and of
\* every UserInfo (bits per second / 8, truncated), and a Config device limit
\* > 0 decides the device limit of every UserInfo, whatever the panel supplied.
C7_OverridePrecedence ==
    \A p \in Callers :
        (Answered(p) /\ IsEntity(ret[p])) =>
            /\ (ret[p].kind = "nodeInfo" /\ SpeedLimit > 0)
                   => ret[p].nodeInfo.SpeedLimit = NatLimbs(SpeedLimit \div 8, LimbsU64)
            /\ ret[p].kind = "userList" =>
                   /\ Len(ret[p].userList) = Len(res[p].result.Data.list)
                   /\ \A i \in 1..Len(ret[p].userList) :
                         /\ SpeedLimit > 0 =>
                               ret[p].userList[i].SpeedLimit
                                   = NatLimbs(SpeedLimit \div 8, LimbsU64)
                         /\ DeviceLimit > 0 =>
                               ret[p].userList[i].DeviceLimit = DeviceLimit
C7_Witness ==
    \E p \in Callers :
        /\ Answered(p) /\ ret[p].kind = "userList"
        /\ SpeedLimit > 0 /\ DeviceLimit > 0
        /\ Len(ret[p].userList) > 0
        /\ res[p].result.Data.list[1].DeviceLimit \notin {0, DeviceLimit}
        /\ res[p].result.Data.list[1].SpeedLimit = U64(3)

\* C8: with no Config override (<= 0) the speed limit is
\* floor(panel_mbps * 1000000 / 8) for every value the payload field can
\* carry, and the device limit is the panel's value.
\* the exact quotient, in words wide enough that the product cannot wrap
LimbsExact == LimbsU64 + 2
Widen(x) == x \o [i \in 1..(LimbsExact - Len(x)) |-> 0]
ExactBytesPerSec(mbps) == Div8(Mul1000000(Widen(mbps)))
C8_PanelValueConverted ==
    \A p \in Callers :
        (Answered(p) /\ IsEntity(ret[p])) =>
            /\ (ret[p].kind = "nodeInfo" /\ SpeedLimit <= 0) =>
                   LET mbps == res[p].result.Data.node.NodeSpeedLimit
                   IN  /\ ~IsNegative(mbps)
                       /\ Widen(ret[p].nodeInfo.SpeedLimit) = ExactBytesPerSec(mbps)
            /\ ret[p].kind = "userList" =>
                   \A i \in 1..Len(ret[p].userList) :
                       LET user == res[p].result.Data.list[i]
                       IN  /\ SpeedLimit <= 0 =>
                                 Widen(ret[p].userList[i].SpeedLimit)
                                     = ExactBytesPerSec(user.SpeedLimit)
                           /\ DeviceLimit <= 0 =>
                                 ret[p].userList[i].DeviceLimit = user.DeviceLimit

C10_NotModifiedOnlyAfterDelivery ==
    \A p \in Callers :
        (Fetched(p) /\ ret[p].err.kind \in NotModifiedKinds)
            => res[p].ver \in delivered[cur[p].resource]

\* C6, the rules that hold of the code: after a transport error the fetch
\* returns the transport's own error; the other rules are as the claim has them.
C6_RulesAsCoded ==
    \A p \in Callers :
        (Fetched(p) /\ ~(res[p].err = "" /\ res[p].status = 304)) =>
            LET url == <<APIHost, IF cur[p].op = "GetNodeInfo"
                                  THEN NodeInfoPath ELSE UserListPath>>
            IN  IF res[p].err # "" THEN
                    ret[p] = ReturnError(RawError(res[p].err))
                ELSE IF res[p].status > 400 THEN
                    ret[p] = ReturnError(RemoteFailure(url, res[p].body))
                ELSE IF res[p].result.Code # 0 THEN
                    ret[p] = ReturnError(RemoteLogicalFailure(res[p].result))
                ELSE IsEntity(ret[p]) \/ ret[p].err.kind = "DecodeFailure"

\* C2: two fetches of one resource never overlap between reading the stored
\* token (Post) and writing it (after the response): each holds the client's
\* lock over its read-then-write.
InTokenWindow(p) == pc[p] \in {"wait", "recv"}
C2_LockNeverTaken == access = 0
C2_FetchesDoNotInterleave ==
    \A p, q \in Callers :
        (p # q /\ InTokenWindow(p) /\ InTokenWindow(q))
            => cur[p].resource # cur[q].resource

====
